---- MODULE Spec2Model ----
(***************************************************************************)
(* Model of the PID controller integration (src/__init__.py):              *)
(*   - PidBaseClass: construction, attribute accessors, the two abstract   *)
(*     hooks and the registration of the periodic cycle with the host;     *)
(*   - the module-level config-entry functions async_setup_entry,          *)
(*     config_entry_update_listener and async_unload_entry.                *)
(* The host framework (timer, entity removal, shutdown, config entries)    *)
(* and the PID library are collaborators: the model gives them the         *)
(* behaviour the calls in the source rely on.                              *)
(***************************************************************************)
EXTENDS Integers, Sequences, FiniteSets, TLC

(***************************************************************************)
(* Bounds of the model.                                                    *)
(***************************************************************************)
\* The host clock runs from 0 to MaxTime seconds.
MaxTime == 4
\* _async_start_pid_cycle is called at most MaxStarts times on the entity.
MaxStarts == 1
\* At most MaxTasks update-listener tasks are pending on the event loop.
MaxTasks == 2

(***************************************************************************)
(* Python values.  A value is a tuple whose first element is its type, so  *)
(* that None, the string "None", a float and a timedelta are all distinct. *)
(* A float is kept in hundredths (float(150) is 1.5); nan is the float     *)
(* NaN.  A timedelta is normalised to days and seconds, as datetime does.  *)
(***************************************************************************)
None == <<"NoneType">>
nan == <<"nan">>
float(x) == <<"float", x>>
bool(b) == <<"bool", b>>
Str(s) == <<"str", s>>
Timedelta(d, s) == <<"timedelta", d, s>>
\* A mapping {"hours": h, "minutes": m, "seconds": s}.
Dict(h, m, s) == <<"dict", h, m, s>>
Datetime(t) == <<"datetime", t>>

isinstance(v, t) == v[1] = t

SecondsPerDay == 24 * 3600

\* timedelta(**kw) for a mapping with the keys hours, minutes and seconds.
timedelta(kw) ==
    LET total == kw[2] * 3600 + kw[3] * 60 + kw[4]
    IN  Timedelta(total \div SecondsPerDay, total % SecondsPerDay)

total_seconds(td) == td[2] * SecondsPerDay + td[3]

Pad2(n) == IF n < 10 THEN "0" \o ToString(n) ELSE ToString(n)

\* str(v) for the values the entity applies it to: None and a timedelta
\* ("H:MM:SS", preceded by "D day, " or "D days, " when days is not 0).
str(v) ==
    CASE isinstance(v, "NoneType") -> Str("None")
      [] isinstance(v, "str") -> v
      [] isinstance(v, "timedelta") ->
            LET mm == v[3] \div 60
                ss == v[3] % 60
                hh == mm \div 60
                s  == ToString(hh) \o ":" \o Pad2(mm % 60) \o ":" \o Pad2(ss)
                absd == IF v[2] < 0 THEN -v[2] ELSE v[2]
                plural == IF absd # 1 THEN "s" ELSE ""
            IN  IF v[2] # 0
                  THEN Str(ToString(v[2]) \o " day" \o plural \o ", " \o s)
                  ELSE Str(s)

math_isnan(value) == value = nan

(***************************************************************************)
(* Constants of the source.                                                *)
(***************************************************************************)
\* Default gains of the constructor, in hundredths: 1, 0.01 and 0.
DEFAULT_K_P == 100
DEFAULT_K_I == 1
DEFAULT_K_D == 0
DEFAULT_CYCLE_TIME == Str("00:00:10")
DIRECT == "DIRECT"
REVERSE == "REVERSE"
NUMBER == "number"
PLATFORMS == <<NUMBER>>

\* The attribute names imported from .const; the model names each by its
\* constant.
ATTR_CYCLE_TIME == "ATTR_CYCLE_TIME"
ATTR_PID_KP == "ATTR_PID_KP"
ATTR_PID_KI == "ATTR_PID_KI"
ATTR_PID_KD == "ATTR_PID_KD"
ATTR_PID_INPUT == "ATTR_PID_INPUT"
ATTR_PID_OUTPUT == "ATTR_PID_OUTPUT"
ATTR_PID_ERROR == "ATTR_PID_ERROR"
ATTR_LAST_CYCLE_START == "ATTR_LAST_CYCLE_START"
ATTR_PID_ENABLE == "ATTR_PID_ENABLE"

(***************************************************************************)
(* State.                                                                  *)
(***************************************************************************)
VARIABLES
    \* --- the entity (one PidBaseClass instance)
    args,                    \* the constructor's arguments
    ent,                     \* "new" | "constructed" | "TypeError"
    _pid,                    \* self._pid, the PID library object
    _attr_cycle_time,        \* self._attr_cycle_time
    _attr_last_cycle_start,  \* self._attr_last_cycle_start
    _on_remove,              \* Entity._on_remove: the registered callbacks
    last_call,               \* the last call of a hook and how it ended
    observed,                \* the last pid_state_attributes mapping read
    \* --- the host, as far as the entity sees it
    hass,                    \* "detached" | "added" | "removed"
    hass_state,              \* "running" | "stopped"
    now,                     \* the host clock, in seconds
    timers,                  \* the timers of async_track_time_interval
    \* --- the config entries
    state,                   \* entry -> ConfigEntryState
    update_listeners,        \* entry -> the registered update listeners
    on_unload,               \* entry -> the callbacks run on unload
    options,                 \* entry -> the entry's options
    platforms,               \* entry -> the platforms set up for it
    tasks,                   \* the pending listener tasks of the event loop
    last_setup,              \* entry -> its last async_setup_entry call
    last_unload,             \* entry -> its last async_unload_entry call
    last_reload,             \* the last async_reload request
    setup_lock               \* entry -> the holder of the entry's setup lock

entityVars == <<_pid, _attr_cycle_time, _attr_last_cycle_start>>
objVars == <<args, ent, _pid, _attr_cycle_time, _attr_last_cycle_start,
             _on_remove, last_call, observed>>
hostVars == <<hass, hass_state, now, timers>>
entryVars == <<state, update_listeners, on_unload, options, platforms, tasks,
               last_setup, last_unload, last_reload, setup_lock>>
vars == <<objVars, hostVars, entryVars>>

Unset == <<"unset">>

(***************************************************************************)
(* The PID library.  Its code is not part of the repository.  The object   *)
(* its constructor returns has the seven fields the entity reads; what the *)
(* library stores in them is the library's business: the gains as given or *)
(* with the sign the library gives them, and any of the computed values    *)
(* of LibComputed (each field is NaN in one and a number in another).      *)
(***************************************************************************)
neg(v) == IF v = nan THEN nan ELSE float(-v[2])

LibComputed ==
    {[in_auto |-> bool(FALSE), last_input |-> nan, output |-> nan,
      last_error |-> nan],
     [in_auto |-> bool(TRUE), last_input |-> float(150),
      output |-> float(4200), last_error |-> float(-25)],
     [in_auto |-> bool(TRUE), last_input |-> float(150), output |-> nan,
      last_error |-> float(0)],
     [in_auto |-> bool(FALSE), last_input |-> nan, output |-> float(4200),
      last_error |-> nan]}

PID(Kp, Ki, Kd, controller_direction) ==
    {[kp |-> g[1], ki |-> g[2], kd |-> g[3], in_auto |-> c.in_auto,
      last_input |-> c.last_input, output |-> c.output,
      last_error |-> c.last_error] :
        g \in {<<Kp, Ki, Kd>>, <<neg(Kp), neg(Ki), neg(Kd)>>},
        c \in LibComputed}

(***************************************************************************)
(* PidBaseClass: the accessors.                                            *)
(***************************************************************************)
cycle_time == str(_attr_cycle_time)

last_cycle_start == str(_attr_last_cycle_start)

k_p == _pid.kp

k_i == _pid.ki

k_d == _pid.kd

enable_pid == _pid.in_auto

\* A faulty filter that lets NaN through.
filter_nan_passes(value) == value

filter_nan(value) == IF math_isnan(value) THEN None ELSE value

pid_input == filter_nan(_pid.last_input)

pid_output == filter_nan(_pid.output)

pid_error == filter_nan(_pid.last_error)

\* attr[key] = value on a dict: a later assignment to the same key wins.
setitem(attr, key, value) == (key :> value) @@ attr

\* A faulty mapping that publishes the PID input unfiltered.
pid_state_attributes_raw_input ==
    LET a0 == <<>>
        a1 == setitem(a0, ATTR_CYCLE_TIME, cycle_time)
        a2 == setitem(a1, ATTR_PID_KP, k_p)
        a3 == setitem(a2, ATTR_PID_KI, k_i)
        a4 == setitem(a3, ATTR_PID_KD, k_d)
        a5 == setitem(a4, ATTR_PID_INPUT, _pid.last_input)
        a6 == setitem(a5, ATTR_PID_OUTPUT, pid_output)
        a7 == setitem(a6, ATTR_PID_ERROR, pid_error)
        a8 == setitem(a7, ATTR_LAST_CYCLE_START, _attr_last_cycle_start)
        a9 == setitem(a8, ATTR_PID_ENABLE, enable_pid)
    IN  a9

pid_state_attributes ==
    LET a0 == <<>>
        a1 == setitem(a0, ATTR_CYCLE_TIME, cycle_time)
        a2 == setitem(a1, ATTR_PID_KP, k_p)
        a3 == setitem(a2, ATTR_PID_KI, k_i)
        a4 == setitem(a3, ATTR_PID_KD, k_d)
        a5 == setitem(a4, ATTR_PID_INPUT, pid_input)
        a6 == setitem(a5, ATTR_PID_OUTPUT, pid_output)
        a7 == setitem(a6, ATTR_PID_ERROR, pid_error)
        a8 == setitem(a7, ATTR_LAST_CYCLE_START, _attr_last_cycle_start)
        a9 == setitem(a8, ATTR_PID_ENABLE, enable_pid)
    IN  a9

(***************************************************************************)
(* PidBaseClass: the constructor and the two abstract hooks.               *)
(***************************************************************************)
NoCall == [op |-> "none", arg |-> <<>>, outcome |-> "none"]

\* __init__: the PID object is made and assigned first; a timedelta is
\* stored as it is, anything else is unpacked as keyword arguments of
\* timedelta, which raises TypeError for a value that is no mapping (a str)
\* and leaves the object with _pid assigned and the other two fields not.
__init__ ==
    /\ ent = "new"
    /\ \E p \in PID(args.k_p, args.k_i, args.k_d, args.direction) :
        IF isinstance(args.cycle_time, "timedelta")
          THEN /\ _pid' = p
               /\ _attr_cycle_time' = args.cycle_time
               /\ _attr_last_cycle_start' = None
               /\ ent' = "constructed"
          ELSE IF isinstance(args.cycle_time, "dict")
            THEN /\ _pid' = p
                 /\ _attr_cycle_time' = timedelta(args.cycle_time)
                 /\ _attr_last_cycle_start' = None
                 /\ ent' = "constructed"
            ELSE /\ _pid' = p
                 /\ ent' = "TypeError"
                 /\ UNCHANGED <<_attr_cycle_time, _attr_last_cycle_start>>
    /\ UNCHANGED <<args, _on_remove, last_call, observed>>
    /\ UNCHANGED <<hostVars, entryVars>>

\* A faulty async_enable that switches the PID object's mode and returns.
async_enable_switches(value) ==
    /\ _pid' = [_pid EXCEPT !.in_auto = bool(value)]
    /\ last_call' = [op |-> "async_enable", arg |-> <<bool(value)>>,
                     outcome |-> "returned"]
    /\ UNCHANGED <<_attr_cycle_time, _attr_last_cycle_start>>

async_enable(value) ==
    /\ last_call' = [op |-> "async_enable", arg |-> <<bool(value)>>,
                     outcome |-> "NotImplementedError"]
    /\ UNCHANGED entityVars

\* _async_pid_cycle: a is the tuple of its positional arguments.
_async_pid_cycle(a) ==
    /\ last_call' = [op |-> "_async_pid_cycle", arg |-> a,
                     outcome |-> "NotImplementedError"]
    /\ UNCHANGED entityVars

\* A caller (a service, a test) enables or disables the regulator.
call_async_enable ==
    /\ ent = "constructed"
    /\ \E value \in BOOLEAN : async_enable(value)
    /\ UNCHANGED <<args, ent, _on_remove, observed>>
    /\ UNCHANGED <<hostVars, entryVars>>

\* A caller runs one cycle directly, with no argument or with a time.
call_async_pid_cycle ==
    /\ ent = "constructed"
    /\ \E a \in {<<>>, <<Datetime(now)>>} : _async_pid_cycle(a)
    /\ UNCHANGED <<args, ent, _on_remove, observed>>
    /\ UNCHANGED <<hostVars, entryVars>>

\* The host reads the entity's state attributes.
read_pid_state_attributes ==
    /\ ent = "constructed"
    /\ observed' = pid_state_attributes
    /\ UNCHANGED <<args, ent, entityVars, _on_remove, last_call>>
    /\ UNCHANGED <<hostVars, entryVars>>

(***************************************************************************)
(* The host, as far as the entity sees it: the entity is added to hass     *)
(* and removed from it, the clock advances, the interval timers fire, and  *)
(* the host shuts down.                                                    *)
(***************************************************************************)
\* async_track_time_interval(hass, action, interval, cancel_on_shutdown):
\* the timer it sets up, first due one interval from now.
async_track_time_interval(action, interval, cancel_on_shutdown) ==
    [action |-> action, interval |-> interval, start |-> now,
     due |-> now + total_seconds(interval), fired |-> 0, active |-> TRUE,
     cancel_on_shutdown |-> cancel_on_shutdown]

\* A faulty start that leaves the timer running through the shutdown.
_async_start_pid_cycle_no_cancel ==
    /\ timers' = Append(timers,
            async_track_time_interval("_async_pid_cycle", _attr_cycle_time,
                                      FALSE))
    /\ _on_remove' = Append(_on_remove, Len(timers) + 1)

\* A faulty start that does not register the timer's cancel handle.
_async_start_pid_cycle_no_on_remove ==
    /\ timers' = Append(timers,
            async_track_time_interval("_async_pid_cycle", _attr_cycle_time,
                                      TRUE))
    /\ _on_remove' = _on_remove

\* _async_start_pid_cycle: the timer is set up and its cancel handle (the
\* timer's index) is registered with async_on_remove.
_async_start_pid_cycle ==
    /\ timers' = Append(timers,
            async_track_time_interval("_async_pid_cycle", _attr_cycle_time,
                                      TRUE))
    /\ _on_remove' = Append(_on_remove, Len(timers) + 1)

\* The host adds the entity to hass.
add_to_hass ==
    /\ ent = "constructed"
    /\ hass = "detached"
    /\ hass_state = "running"
    /\ hass' = "added"
    /\ UNCHANGED <<objVars, hass_state, now, timers, entryVars>>

\* The entity (a subclass, once added to hass) starts its cycle.
start_pid_cycle ==
    /\ hass = "added"
    /\ hass_state = "running"
    /\ Len(timers) < MaxStarts
    /\ _async_start_pid_cycle
    /\ UNCHANGED <<args, ent, entityVars, last_call, observed>>
    /\ UNCHANGED <<hass, hass_state, now, entryVars>>

\* The host removes the entity: every callback of _on_remove is run, and
\* each cancels its timer.
async_remove ==
    /\ hass = "added"
    /\ hass' = "removed"
    /\ timers' = [i \in 1..Len(timers) |->
                    IF \E j \in 1..Len(_on_remove) : _on_remove[j] = i
                      THEN [timers[i] EXCEPT !.active = FALSE]
                      ELSE timers[i]]
    /\ _on_remove' = <<>>
    /\ UNCHANGED <<args, ent, entityVars, last_call, observed>>
    /\ UNCHANGED <<hass_state, now, entryVars>>

\* The host shuts down: the timers set up with cancel_on_shutdown are
\* cancelled.
stop ==
    /\ hass_state = "running"
    /\ hass_state' = "stopped"
    /\ timers' = [i \in 1..Len(timers) |->
                    IF timers[i].cancel_on_shutdown
                      THEN [timers[i] EXCEPT !.active = FALSE]
                      ELSE timers[i]]
    /\ UNCHANGED <<objVars, hass, now, entryVars>>

\* A second passes; a timer that is due fires first.
tick ==
    /\ now < MaxTime
    /\ \A i \in 1..Len(timers) : timers[i].active => timers[i].due > now
    /\ now' = now + 1
    /\ UNCHANGED <<objVars, hass, hass_state, timers, entryVars>>

\* A due timer fires: the host calls the entity's cycle callback with the
\* time, logs what it raises, and the timer is due again an interval later.
timer_fire ==
    \E i \in 1..Len(timers) :
        /\ timers[i].active
        /\ timers[i].due = now
        /\ _async_pid_cycle(<<Datetime(now)>>)
        /\ timers' = [timers EXCEPT ![i].fired = @ + 1,
                         ![i].due = @ + total_seconds(timers[i].interval)]
        /\ UNCHANGED <<args, ent, _on_remove, observed>>
        /\ UNCHANGED <<hass, hass_state, now, entryVars>>

(***************************************************************************)
(* The config entries and the host's handling of them.                     *)
(***************************************************************************)
Entries == {"e1", "e2"}

\* entry.entry_id
entry_id == [e \in Entries |-> IF e = "e1" THEN "id_1" ELSE "id_2"]

\* hass.config_entries.async_get_known_entry(id)
async_get_known_entry(id) == CHOOSE e \in Entries : entry_id[e] = id

NoSetup == [called |-> FALSE, platforms |-> <<>>, result |-> "none"]
NoUnload == [called |-> FALSE, platforms |-> <<>>, host |-> FALSE,
             result |-> FALSE]
NoReload == [by |-> "none", entry_id |-> "none"]

Range(q) == {q[i] : i \in 1..Len(q)}

\* list.remove(x): q without the first x; ValueError when x is not in q.
Remove(q, x) ==
    LET i == CHOOSE k \in 1..Len(q) :
                 q[k] = x /\ \A j \in 1..(k - 1) : q[j] # x
    IN  IF x \in Range(q)
          THEN [raised |-> "none",
                list |-> SubSeq(q, 1, i - 1) \o SubSeq(q, i + 1, Len(q))]
          ELSE [raised |-> "ValueError", list |-> q]

\* The host runs an entry's on_unload callbacks, the last one first; each
\* is the unsubscribe handle of a listener and removes it from the entry's
\* update listeners.  An exception ends the run.
RECURSIVE process_on_unload(_, _)
process_on_unload(listeners, callbacks) ==
    IF callbacks = <<>>
      THEN [raised |-> "none", listeners |-> listeners,
            callbacks |-> callbacks]
      ELSE LET n == Len(callbacks)
               r == Remove(listeners, callbacks[n])
           IN  IF r.raised # "none"
                 THEN [raised |-> r.raised, listeners |-> listeners,
                       callbacks |-> SubSeq(callbacks, 1, n - 1)]
                 ELSE process_on_unload(r.list, SubSeq(callbacks, 1, n - 1))

\* hass.config_entries.async_forward_entry_setups(entry, ps)
async_forward_entry_setups(entry, ps) ==
    platforms' = [platforms EXCEPT ![entry] = @ \cup Range(ps)]

\* async_setup_entry up to its await: the platforms are forwarded and the
\* coroutine is suspended, or the host call raises and the exception leaves
\* async_setup_entry with nothing registered.
async_setup_entry_forward(entry, raises) ==
    IF raises
      THEN /\ platforms' = platforms
           /\ last_setup' = [last_setup EXCEPT
                  ![entry] = [called |-> TRUE, platforms |-> PLATFORMS,
                              result |-> "raised"]]
      ELSE /\ async_forward_entry_setups(entry, PLATFORMS)
           /\ last_setup' = [last_setup EXCEPT
                  ![entry] = [called |-> TRUE, platforms |-> PLATFORMS,
                              result |-> "pending"]]

\* A faulty setup that registers the listener and drops its unsubscribe
\* handle.
async_setup_entry_keeps_listener(entry) ==
    /\ update_listeners' = [update_listeners EXCEPT
            ![entry] = Append(@, "config_entry_update_listener")]
    /\ on_unload' = on_unload
    /\ last_setup' = [last_setup EXCEPT ![entry].result = "True"]

\* async_setup_entry after its await: the update listener is added
\* (entry.add_update_listener), its unsubscribe handle is kept for the
\* unload (entry.async_on_unload), and the result is True.
async_setup_entry(entry) ==
    /\ update_listeners' = [update_listeners EXCEPT
            ![entry] = Append(@, "config_entry_update_listener")]
    /\ on_unload' = [on_unload EXCEPT
            ![entry] = Append(@, "config_entry_update_listener")]
    /\ last_setup' = [last_setup EXCEPT ![entry].result = "True"]

\* A faulty listener that always reloads the first entry.
config_entry_update_listener_first(entry) == "id_1"

\* config_entry_update_listener(hass, entry): the entry id it hands to
\* hass.config_entries.async_reload.
config_entry_update_listener(entry) == entry_id[entry]

\* A faulty unload that reports success whatever the host says.
async_unload_entry_true(entry, host_result) ==
    /\ platforms' = [platforms EXCEPT
            ![entry] = IF host_result THEN @ \ Range(PLATFORMS) ELSE @]
    /\ last_unload' = [last_unload EXCEPT
            ![entry] = [called |-> TRUE, platforms |-> PLATFORMS,
                        host |-> host_result, result |-> TRUE]]

\* async_unload_entry: the result of
\* hass.config_entries.async_unload_platforms(entry, PLATFORMS), which is
\* host_result and, when it is True, has unloaded the platforms.
async_unload_entry(entry, host_result) ==
    /\ platforms' = [platforms EXCEPT
            ![entry] = IF host_result THEN @ \ Range(PLATFORMS) ELSE @]
    /\ last_unload' = [last_unload EXCEPT
            ![entry] = [called |-> TRUE, platforms |-> PLATFORMS,
                        host |-> host_result, result |-> host_result]]

\* The host calls async_setup_entry, which runs up to its await: the entry
\* is being set up, or the setup has failed with the host call's exception.
host_call_setup(e) ==
    /\ \E raises \in BOOLEAN : async_setup_entry_forward(e, raises)
    /\ IF last_setup'[e].result = "raised"
         THEN /\ state' = [state EXCEPT ![e] = "SETUP_ERROR"]
              /\ setup_lock' = [setup_lock EXCEPT ![e] = "free"]
         ELSE /\ state' = [state EXCEPT ![e] = "SETUP_IN_PROGRESS"]
              /\ setup_lock' = [setup_lock EXCEPT ![e] = "setup"]
    /\ UNCHANGED <<update_listeners, on_unload, options, tasks, last_unload,
                   last_reload>>
    /\ UNCHANGED <<objVars, hostVars>>

\* The host sets up an entry that is not loaded (under the entry's setup
\* lock).
host_setup ==
    \E e \in Entries :
        /\ state[e] = "NOT_LOADED"
        /\ setup_lock[e] = "free"
        /\ host_call_setup(e)

\* The awaited host call returns: async_setup_entry runs to its end, and
\* the entry is loaded when the result is True.
host_setup_done ==
    \E e \in Entries :
        /\ setup_lock[e] = "setup"
        /\ async_setup_entry(e)
        /\ state' = [state EXCEPT
                ![e] = IF last_setup'[e].result = "True" THEN "LOADED"
                       ELSE "SETUP_ERROR"]
        /\ setup_lock' = [setup_lock EXCEPT ![e] = "free"]
        /\ UNCHANGED <<options, platforms, tasks, last_unload, last_reload>>
        /\ UNCHANGED <<objVars, hostVars>>

\* The user changes an entry's options: the host starts one task for each
\* update listener of the entry.
host_update_options ==
    \E e \in Entries :
        /\ tasks[e] + Len(update_listeners[e]) <= MaxTasks
        /\ options' = [options EXCEPT ![e] = 1 - @]
        /\ tasks' = [tasks EXCEPT ![e] = @ + Len(update_listeners[e])]
        /\ UNCHANGED <<state, setup_lock, update_listeners, on_unload,
                       platforms, last_setup, last_unload, last_reload>>
        /\ UNCHANGED <<objVars, hostVars>>

\* The host unloads a loaded entry (under the entry's setup lock): it calls
\* async_unload_entry.
host_unload ==
    \E e \in Entries :
        /\ state[e] = "LOADED"
        /\ setup_lock[e] = "free"
        /\ \E r \in BOOLEAN : async_unload_entry(e, r)
        /\ setup_lock' = [setup_lock EXCEPT ![e] = "unload"]
        /\ UNCHANGED <<state, update_listeners, on_unload, options, tasks,
                       last_setup, last_reload>>
        /\ UNCHANGED <<objVars, hostVars>>

\* A listener task runs: the listener asks for a reload, and
\* hass.config_entries.async_reload takes the entry's setup lock and
\* unloads the entry: a loaded one through async_unload_entry, one that is
\* not loaded or whose setup failed at once; an entry whose unload failed
\* cannot be reloaded.
run_listener_task ==
    \E e \in Entries :
        LET id == config_entry_update_listener(e)
            t  == async_get_known_entry(id)
        IN  /\ tasks[e] > 0
            /\ setup_lock[t] = "free"
            /\ tasks' = [tasks EXCEPT ![e] = @ - 1]
            /\ last_reload' = [by |-> e, entry_id |-> id]
            /\ CASE state[t] = "LOADED" ->
                        /\ \E r \in BOOLEAN : async_unload_entry(t, r)
                        /\ setup_lock' = [setup_lock EXCEPT
                                             ![t] = "reload_unload"]
                        /\ UNCHANGED state
                 [] state[t] \in {"NOT_LOADED", "SETUP_ERROR"} ->
                        /\ state' = [state EXCEPT ![t] = "NOT_LOADED"]
                        /\ setup_lock' = [setup_lock EXCEPT
                                             ![t] = "reload_setup"]
                        /\ UNCHANGED <<platforms, last_unload>>
                 [] OTHER ->
                        UNCHANGED <<state, setup_lock, platforms,
                                    last_unload>>
            /\ UNCHANGED <<update_listeners, on_unload, options, last_setup>>
            /\ UNCHANGED <<objVars, hostVars>>

\* async_unload_entry has returned: when its result is True the host runs
\* the entry's on_unload callbacks and the entry is not loaded; when it is
\* False, or a callback raises, the unload has failed.
host_unload_done ==
    \E e \in Entries :
        LET done == process_on_unload(update_listeners[e], on_unload[e])
        IN  /\ setup_lock[e] \in {"unload", "reload_unload"}
            /\ IF last_unload[e].result
                 THEN /\ update_listeners' = [update_listeners EXCEPT
                            ![e] = done.listeners]
                      /\ on_unload' = [on_unload EXCEPT
                            ![e] = done.callbacks]
                      /\ IF done.raised = "none"
                           THEN /\ state' = [state EXCEPT
                                      ![e] = "NOT_LOADED"]
                                /\ setup_lock' = [setup_lock EXCEPT
                                      ![e] = IF @ = "reload_unload"
                                               THEN "reload_setup"
                                               ELSE "free"]
                           ELSE /\ state' = [state EXCEPT
                                      ![e] = "FAILED_UNLOAD"]
                                /\ setup_lock' = [setup_lock EXCEPT
                                      ![e] = "free"]
                 ELSE /\ state' = [state EXCEPT ![e] = "FAILED_UNLOAD"]
                      /\ setup_lock' = [setup_lock EXCEPT ![e] = "free"]
                      /\ UNCHANGED <<update_listeners, on_unload>>
            /\ UNCHANGED <<options, platforms, tasks, last_setup,
                           last_unload, last_reload>>
            /\ UNCHANGED <<objVars, hostVars>>

\* The second half of a reload: the host calls async_setup_entry again.
host_reload_setup ==
    \E e \in Entries :
        /\ setup_lock[e] = "reload_setup"
        /\ host_call_setup(e)

(***************************************************************************)
(* The specifications.                                                     *)
(***************************************************************************)
GainArgs ==
    {[k_p |-> float(DEFAULT_K_P), k_i |-> float(DEFAULT_K_I),
      k_d |-> float(DEFAULT_K_D), direction |-> DIRECT],
     [k_p |-> float(200), k_i |-> float(50), k_d |-> float(25),
      direction |-> REVERSE]}

CycleTimeArgs ==
    {DEFAULT_CYCLE_TIME, Timedelta(0, 1), Timedelta(0, 2),
     Timedelta(1, 3661), Dict(0, 0, 2), Dict(25, 1, 1)}

InitEntity ==
    /\ ent = "new"
    /\ _pid = Unset
    /\ _attr_cycle_time = Unset
    /\ _attr_last_cycle_start = Unset
    /\ _on_remove = <<>>
    /\ last_call = NoCall
    /\ observed = Unset
    /\ hass = "detached"
    /\ hass_state = "running"
    /\ now = 0
    /\ timers = <<>>

InitEntries ==
    /\ state = [e \in Entries |-> "NOT_LOADED"]
    /\ setup_lock = [e \in Entries |-> "free"]
    /\ update_listeners = [e \in Entries |-> <<>>]
    /\ on_unload = [e \in Entries |-> <<>>]
    /\ options = [e \in Entries |-> 0]
    /\ platforms = [e \in Entries |-> {}]
    /\ tasks = [e \in Entries |-> 0]
    /\ last_setup = [e \in Entries |-> NoSetup]
    /\ last_unload = [e \in Entries |-> NoUnload]
    /\ last_reload = NoReload

\* The entity: constructed with arguments of the declared types (and with
\* the mapping the else branch unpacks), then used by the host.
Init ==
    /\ \E g \in GainArgs, c \in CycleTimeArgs :
          args = [k_p |-> g.k_p, k_i |-> g.k_i, k_d |-> g.k_d,
                  direction |-> g.direction, cycle_time |-> c]
    /\ InitEntity
    /\ InitEntries

Next ==
    \/ __init__
    \/ call_async_enable
    \/ call_async_pid_cycle
    \/ read_pid_state_attributes
    \/ add_to_hass
    \/ start_pid_cycle
    \/ async_remove
    \/ stop
    \/ tick
    \/ timer_fire

Spec == Init /\ [][Next]_vars

\* The config entries: set up, changed, reloaded and unloaded by the host.
InitConfig ==
    /\ args = [k_p |-> float(DEFAULT_K_P), k_i |-> float(DEFAULT_K_I),
               k_d |-> float(DEFAULT_K_D), direction |-> DIRECT,
               cycle_time |-> DEFAULT_CYCLE_TIME]
    /\ InitEntity
    /\ InitEntries

NextConfig ==
    \/ host_setup
    \/ host_setup_done
    \/ host_update_options
    \/ host_unload
    \/ run_listener_task
    \/ host_unload_done
    \/ host_reload_setup

SpecConfig == InitConfig /\ [][NextConfig]_vars

(***************************************************************************)
(* The claims.                                                             *)
(***************************************************************************)
Constructed == ent = "constructed"

\* C1: every call of async_enable (True or False) and of _async_pid_cycle
\* (with no argument, with a time, from the timer) ends in
\* NotImplementedError and leaves the gains, the enabled flag, the cycle
\* time, the last cycle start and the PID input, output and error as they
\* were.
C1_HooksNotImplemented ==
    [][last_call' # last_call =>
          /\ last_call'.op \in {"async_enable", "_async_pid_cycle"}
          /\ last_call'.outcome = "NotImplementedError"
          /\ UNCHANGED <<k_p, k_i, k_d, enable_pid, cycle_time,
                         last_cycle_start, _attr_last_cycle_start,
                         pid_input, pid_output, pid_error>>]_vars

\* The timer has called the cycle callback, which raised.
C1_Witness ==
    /\ \E i \in 1..Len(timers) : timers[i].fired > 0
    /\ last_call.op = "_async_pid_cycle"
    /\ last_call.arg = <<Datetime(now)>>
    /\ last_call.outcome = "NotImplementedError"

\* C2: pid_input, pid_output and pid_error are None exactly when
\* last_input, output and last_error are NaN, and are that value otherwise;
\* filter_nan(v) is None iff v is NaN, else v.
C2_NanFiltered ==
    /\ \A v \in {nan, float(0), float(150), float(-25)} :
          /\ filter_nan(v) = None <=> math_isnan(v)
          /\ ~math_isnan(v) => filter_nan(v) = v
    /\ Constructed =>
          /\ pid_input = None <=> _pid.last_input = nan
          /\ _pid.last_input # nan => pid_input = _pid.last_input
          /\ pid_output = None <=> _pid.output = nan
          /\ _pid.output # nan => pid_output = _pid.output
          /\ pid_error = None <=> _pid.last_error = nan
          /\ _pid.last_error # nan => pid_error = _pid.last_error

\* An entity whose PID input is a number while its output is NaN.
C2_Witness ==
    /\ Constructed
    /\ _pid.last_input = float(150)
    /\ _pid.output = nan
    /\ observed # Unset

\* What holds of every timer in every state.
C3_TimerState ==
    \A i \in 1..Len(timers) :
        LET t == timers[i]
            d == total_seconds(t.interval)
        IN  /\ t.action = "_async_pid_cycle"
            /\ t.interval = _attr_cycle_time
            /\ t.active =>
                  /\ t.start + t.fired * d <= now
                  /\ now <= t.start + (t.fired + 1) * d
            /\ (hass = "removed" \/ hass_state = "stopped") => ~t.active

\* C3: a timer set up by _async_start_pid_cycle calls the cycle callback,
\* its interval is the stored cycle time, it has fired once for each whole
\* interval since it was set up, it is cancelled once the entity is removed
\* or the host has shut down, and from then on no timer fires.
C3_PeriodicCycle ==
    /\ []C3_TimerState
    /\ [][(hass = "removed" \/ hass_state = "stopped") =>
            /\ Len(timers') = Len(timers)
            /\ \A i \in 1..Len(timers) : timers'[i].fired = timers[i].fired]_vars

\* A timer fired twice, and then the entity was removed.
C3_Witness ==
    /\ hass = "removed"
    /\ \E i \in 1..Len(timers) : timers[i].fired >= 2 /\ ~timers[i].active
    /\ now = MaxTime

\* C4: pid_state_attributes has exactly the nine attribute keys, the values
\* of cycle time, Kp, Ki, Kd, PID input, PID output, PID error and PID
\* enable are what the accessors return, and a read leaves the entity as it
\* was (what was read is still what the entity publishes).
AttrKeys ==
    {ATTR_CYCLE_TIME, ATTR_PID_KP, ATTR_PID_KI, ATTR_PID_KD, ATTR_PID_INPUT,
     ATTR_PID_OUTPUT, ATTR_PID_ERROR, ATTR_LAST_CYCLE_START, ATTR_PID_ENABLE}

C4_StateAttributes ==
    Constructed =>
        /\ DOMAIN pid_state_attributes = AttrKeys
        /\ Cardinality(DOMAIN pid_state_attributes) = 9
        /\ pid_state_attributes[ATTR_CYCLE_TIME] = cycle_time
        /\ pid_state_attributes[ATTR_PID_KP] = k_p
        /\ pid_state_attributes[ATTR_PID_KI] = k_i
        /\ pid_state_attributes[ATTR_PID_KD] = k_d
        /\ pid_state_attributes[ATTR_PID_INPUT] = pid_input
        /\ pid_state_attributes[ATTR_PID_OUTPUT] = pid_output
        /\ pid_state_attributes[ATTR_PID_ERROR] = pid_error
        /\ pid_state_attributes[ATTR_PID_ENABLE] = enable_pid
        /\ observed # Unset => observed = pid_state_attributes

\* The attributes of an entity whose PID input is NaN have been read.
C4_Witness ==
    /\ Constructed
    /\ observed # Unset
    /\ observed[ATTR_PID_INPUT] = None
    /\ observed[ATTR_PID_OUTPUT] = float(4200)
    /\ observed[ATTR_CYCLE_TIME] = Str("1 day, 1:01:01")

\* What holds of the entries, their last setup and the last reload request.
C6_EntryState ==
    /\ \A e \in Entries :
          /\ (state[e] = "LOADED" /\ setup_lock[e] = "free") =>
                /\ NUMBER \in platforms[e]
                /\ update_listeners[e] = <<"config_entry_update_listener">>
                /\ on_unload[e] = <<"config_entry_update_listener">>
          /\ last_setup[e].called =>
                /\ last_setup[e].platforms = <<NUMBER>>
                /\ last_setup[e].result \in {"pending", "raised", "True"}
                /\ last_setup[e].result = "pending" <=>
                      state[e] = "SETUP_IN_PROGRESS"
          /\ state[e] = "SETUP_IN_PROGRESS" =>
                NUMBER \in platforms[e] /\ update_listeners[e] = <<>>
          /\ state[e] = "SETUP_ERROR" =>
                last_setup[e].result = "raised" /\ update_listeners[e] = <<>>
    /\ last_reload # NoReload =>
          last_reload.entry_id = entry_id[last_reload.by]

\* C6: async_setup_entry forwards the NUMBER platform and, once the host
\* call has returned, adds the update listener with its unsubscribe handle
\* among the unload callbacks and returns True (when the host call raises,
\* nothing is registered); from then on a change of the options of the
\* loaded entry starts one listener task for that entry, and a listener
\* task asks for the reload of its own entry's id and touches no other
\* entry.
C6_SetupAndReload ==
    /\ []C6_EntryState
    /\ [][\A e \in Entries :
            /\ (options'[e] # options[e] /\ state[e] = "LOADED"
                    /\ setup_lock[e] = "free") =>
                  tasks' = [tasks EXCEPT ![e] = @ + 1]
            /\ tasks'[e] < tasks[e] =>
                  /\ setup_lock'[e] # "free" \/ state[e] = "FAILED_UNLOAD"
                  /\ \A o \in Entries \ {e} :
                        /\ setup_lock'[o] = setup_lock[o]
                        /\ state'[o] = state[o]
                        /\ last_unload'[o] = last_unload[o]
                        /\ platforms'[o] = platforms[o]]_vars

\* The options of the second entry were changed and it was reloaded, while
\* the first entry was never set up.
C6_Witness ==
    /\ last_reload = [by |-> "e2", entry_id |-> "id_2"]
    /\ last_unload["e2"].called /\ last_unload["e2"].result
    /\ last_setup["e2"].result = "True"
    /\ state["e2"] = "LOADED" /\ setup_lock["e2"] = "free"
    /\ options["e2"] = 1 /\ tasks["e2"] = 0
    /\ state["e1"] = "NOT_LOADED" /\ platforms["e1"] = {}
    /\ ~last_unload["e1"].called /\ ~last_setup["e1"].called

\* What holds of every entry's last async_unload_entry call.
C7_UnloadState ==
    \A e \in Entries :
        last_unload[e].called =>
            /\ last_unload[e].result = last_unload[e].host
            /\ last_unload[e].platforms = <<NUMBER>>
            /\ last_unload[e].platforms = last_setup[e].platforms

\* C7: async_unload_entry returns the result of the host's platform unload
\* for PLATFORMS, the list async_setup_entry forwarded, and the call
\* changes nothing but what that host unload does.
C7_UnloadResult ==
    /\ []C7_UnloadState
    /\ [][\A e \in Entries :
            last_unload'[e] # last_unload[e] =>
                /\ platforms'[e] = IF last_unload'[e].host
                                     THEN platforms[e] \ {NUMBER}
                                     ELSE platforms[e]
                /\ UNCHANGED <<state, update_listeners, on_unload, options,
                               last_setup>>]_vars

\* The host's unload failed for one entry and succeeded for the other.
C7_Witness ==
    /\ last_unload["e1"].called /\ ~last_unload["e1"].result
    /\ state["e1"] = "FAILED_UNLOAD" /\ NUMBER \in platforms["e1"]
    /\ last_unload["e2"].called /\ last_unload["e2"].result
    /\ state["e2"] = "NOT_LOADED" /\ platforms["e2"] = {}

\* C8: construction with a cycle_time of a declared type (a str, a
\* timedelta) completes and stores a timedelta: a timedelta argument as it
\* is, the default as 10 seconds; cycle_time is the stored value's string.
C8_ConstructionCompletes ==
    (ent # "new" /\ (isinstance(args.cycle_time, "str")
                        \/ isinstance(args.cycle_time, "timedelta"))) =>
        /\ ent = "constructed"
        /\ isinstance(_attr_cycle_time, "timedelta")
        /\ isinstance(args.cycle_time, "timedelta") =>
              _attr_cycle_time = args.cycle_time
        /\ args.cycle_time = DEFAULT_CYCLE_TIME =>
              _attr_cycle_time = Timedelta(0, 10)
        /\ cycle_time = str(_attr_cycle_time)

\* What holds of every entry's update listeners.
C9_ListenerState ==
    \A e \in Entries :
        /\ Len(update_listeners[e]) <= 1
        /\ state[e] \in {"NOT_LOADED", "SETUP_IN_PROGRESS", "SETUP_ERROR"} =>
              update_listeners[e] = <<>>

\* C9: an entry never has more than one update listener, an entry that is
\* not loaded (or not yet, or whose setup failed) has none, and a change of
\* the options of an entry that is not loaded starts no listener task.
C9_OneListener ==
    /\ []C9_ListenerState
    /\ [][\A e \in Entries :
            (options'[e] # options[e] /\ state[e] # "LOADED"
                    /\ state[e] # "FAILED_UNLOAD") =>
                tasks' = tasks]_vars

\* An entry was reloaded after a change of its options and then unloaded,
\* and its options were changed again.
C9_Witness ==
    /\ last_reload.by = "e1"
    /\ last_setup["e1"].result = "True"
    /\ last_unload["e1"].called /\ last_unload["e1"].result
    /\ state["e1"] = "NOT_LOADED" /\ setup_lock["e1"] = "free"
    /\ options["e1"] = 0 /\ tasks["e1"] = 0
    /\ state["e2"] = "NOT_LOADED" /\ platforms["e2"] = {}

\* C10: the last cycle start published in pid_state_attributes is what the
\* last_cycle_start accessor returns, also right after construction, when
\* the stored value is None.
C10_LastCycleStartPublished ==
    Constructed =>
        pid_state_attributes[ATTR_LAST_CYCLE_START] = last_cycle_start
====
